---- MODULE Spec2Model ----
(***************************************************************************)
(* Model of gonew's init command (cmd/init.go): validation of the module   *)
(* identities, the copy of the fetched module tree, the rewrite of Go      *)
(* source headers (fixGo), the rewrite of go.mod (fixGoMod) and the        *)
(* template expansion that follows.  Text is modelled byte for byte: a     *)
(* string is a sequence of one-character strings, and offsets are Go's     *)
(* 0-based byte offsets.                                                    *)
(***************************************************************************)
EXTENDS Integers, Sequences, FiniteSets, TLC

(***************************************************************************)
(* Go strings and path helpers, as the code uses them.                     *)
(***************************************************************************)

\* s[lo:hi] of Go (0-based, half open).
Slice(s, lo, hi) == SubSeq(s, lo + 1, hi)

\* s[i] of Go (0-based); "" past the end.
At(s, i) == IF i >= 0 /\ i < Len(s) THEN s[i + 1] ELSE ""

\* strings.HasPrefix
HasPrefix(s, prefix) ==
    Len(s) >= Len(prefix) /\ SubSeq(s, 1, Len(prefix)) = prefix

\* strings.HasSuffix
HasSuffix(s, suffix) ==
    Len(s) >= Len(suffix) /\ SubSeq(s, Len(s) - Len(suffix) + 1, Len(s)) = suffix

\* Whether sub occurs in s at offset i.
HasPrefixAt(s, i, sub) ==
    i >= 0 /\ i + Len(sub) <= Len(s) /\ Slice(s, i, i + Len(sub)) = sub

RECURSIVE IndexFrom(_, _, _)
IndexFrom(s, sub, i) ==
    IF i + Len(sub) > Len(s) THEN -1
    ELSE IF HasPrefixAt(s, i, sub) THEN i
    ELSE IndexFrom(s, sub, i + 1)

\* strings.Index: offset of the first occurrence of sub in s, -1 if none.
Index(s, sub) == IndexFrom(s, sub, 0)

RECURSIVE LastIndexFrom(_, _, _)
LastIndexFrom(s, sub, i) ==
    IF i < 0 THEN -1
    ELSE IF HasPrefixAt(s, i, sub) THEN i
    ELSE LastIndexFrom(s, sub, i - 1)

\* strings.LastIndex
LastIndex(s, sub) == LastIndexFrom(s, sub, Len(s) - Len(sub))

\* strings.Contains
Contains(s, sub) == Index(s, sub) >= 0

\* strings.TrimPrefix
TrimPrefix(s, prefix) ==
    IF HasPrefix(s, prefix) THEN Slice(s, Len(prefix), Len(s)) ELSE s

\* strings.Replace(s, old, new, n) for a non-empty old: the first n
\* occurrences (all of them when n < 0), left to right.
RECURSIVE Replace(_, _, _, _)

\* strings.Replace with the first occurrence of old at offset i.
ReplaceFrom(s, old, new, n, i) ==
    IF n = 0 \/ i < 0 THEN s
    ELSE Slice(s, 0, i) \o new
         \o Replace(Slice(s, i + Len(old), Len(s)), old, new, n - 1)

Replace(s, old, new, n) == ReplaceFrom(s, old, new, n, Index(s, old))

\* strings.Cut(s, sep): the text before the first sep (all of s if none).
CutBefore(s, sep) ==
    IF Contains(s, sep) THEN Slice(s, 0, Index(s, sep)) ELSE s

RECURSIVE TrimTrailingSlashes(_)
TrimTrailingSlashes(s) ==
    IF Len(s) > 0 /\ s[Len(s)] = "/"
    THEN TrimTrailingSlashes(SubSeq(s, 1, Len(s) - 1)) ELSE s

\* path.Base: the last element of a slash-separated path.
BaseOfTrimmed(t) ==
    IF t = <<>> THEN <<"/">>
    ELSE Slice(t, LastIndex(t, <<"/">>) + 1, Len(t))

Base(p) ==
    IF p = <<>> THEN <<".">> ELSE BaseOfTrimmed(TrimTrailingSlashes(p))

(***************************************************************************)
(* Characters.                                                              *)
(***************************************************************************)
LowerLetters ==
    {"a","b","c","d","e","f","g","h","i","j","k","l","m",
     "n","o","p","q","r","s","t","u","v","w","x","y","z"}

UpperLetters ==
    {"A","B","C","D","E","F","G","H","I","J","K","L","M",
     "N","O","P","Q","R","S","T","U","V","W","X","Y","Z"}

Digits == {"0","1","2","3","4","5","6","7","8","9"}

\* The byte 0x60, the back quote of a raw string literal: a TLA+ string cannot
\* hold it, so it is the one byte written by name.
BackQuote == "BACKQUOTE"

\* The letters of a Go identifier (ASCII part): letters and the underscore.
IdentLetters == LowerLetters \cup UpperLetters \cup {"_"}

IdentChars == IdentLetters \cup Digits

AllIn(s, set) == \A i \in 1..Len(s) : s[i] \in set

\* The keywords of Go (go/token).
Keywords ==
    { <<"b","r","e","a","k">>, <<"c","a","s","e">>, <<"c","h","a","n">>,
      <<"c","o","n","s","t">>, <<"c","o","n","t","i","n","u","e">>,
      <<"d","e","f","a","u","l","t">>, <<"d","e","f","e","r">>,
      <<"e","l","s","e">>, <<"f","a","l","l","t","h","r","o","u","g","h">>,
      <<"f","o","r">>, <<"f","u","n","c">>, <<"g","o">>, <<"g","o","t","o">>,
      <<"i","f">>, <<"i","m","p","o","r","t">>,
      <<"i","n","t","e","r","f","a","c","e">>, <<"m","a","p">>,
      <<"p","a","c","k","a","g","e">>, <<"r","a","n","g","e">>,
      <<"r","e","t","u","r","n">>, <<"s","e","l","e","c","t">>,
      <<"s","t","r","u","c","t">>, <<"s","w","i","t","c","h">>,
      <<"t","y","p","e">>, <<"v","a","r">> }

\* token.IsIdentifier: a non-empty run of letters and digits that starts
\* with a letter and is no keyword.
IsIdentifier(name) ==
    /\ name # <<>>
    /\ name[1] \in IdentLetters
    /\ AllIn(name, IdentChars)
    /\ name \notin Keywords

(***************************************************************************)
(* strconv.Quote and strconv.Unquote on the literal forms Go source uses   *)
(* for an import path: an interpreted string "..." with backslash escapes, *)
(* or a raw string between back quotes.                                     *)
(***************************************************************************)

\* The two-digit hexadecimal escapes \xHH the model decodes, by character.
HexChar ==
    [h \in { <<"2","e">>, <<"2","f">>, <<"6","2">>, <<"6","3">>,
             <<"7","8">>, <<"7","9">> } |->
        CASE h = <<"2","e">> -> "."
          [] h = <<"2","f">> -> "/"
          [] h = <<"6","2">> -> "b"
          [] h = <<"6","3">> -> "c"
          [] h = <<"7","8">> -> "x"
          [] h = <<"7","9">> -> "y"]

\* The failure of UnquoteBody (no byte is three characters long).
BadEscape == <<"ERR">>

\* One decoded character before the decoded rest, unless the rest failed.
Decoded(ch, rest) == IF rest = BadEscape THEN rest ELSE <<ch>> \o rest

\* strconv.UnquoteChar over the body of an interpreted literal: the decoded
\* text, or BadEscape.
RECURSIVE UnquoteBody(_, _)
UnquoteBody(s, quote) ==
    IF s = <<>> THEN <<>>
    ELSE IF s[1] = quote \/ s[1] = "\n" THEN BadEscape
    ELSE IF s[1] # "\\" THEN Decoded(s[1], UnquoteBody(Tail(s), quote))
    ELSE IF Len(s) < 2 THEN BadEscape
    ELSE IF s[2] = "x" THEN
        IF Len(s) >= 4 /\ <<s[3], s[4]>> \in DOMAIN HexChar
        THEN Decoded(HexChar[<<s[3], s[4]>>],
                     UnquoteBody(SubSeq(s, 5, Len(s)), quote))
        ELSE BadEscape
    ELSE IF s[2] \in {"\\", quote, "n", "t"} THEN
        Decoded(IF s[2] = "n" THEN "\n" ELSE IF s[2] = "t" THEN "\t" ELSE s[2],
                UnquoteBody(SubSeq(s, 3, Len(s)), quote))
    ELSE BadEscape

UnquoteFailed == [ok |-> FALSE, value |-> <<>>]

UnquoteResult(v) ==
    IF v = BadEscape THEN UnquoteFailed ELSE [ok |-> TRUE, value |-> v]

\* strconv.Unquote once the quotes are off.
UnquoteInner(quote, body) ==
    IF quote = BackQuote THEN
        IF Contains(body, <<BackQuote>>) THEN UnquoteFailed
        ELSE [ok |-> TRUE, value |-> body]
    ELSE IF quote = "\"" THEN
        IF Contains(body, <<"\n">>) THEN UnquoteFailed
        ELSE IF ~Contains(body, <<"\\">>) /\ ~Contains(body, <<"\"">>)
        THEN [ok |-> TRUE, value |-> body]
        ELSE UnquoteResult(UnquoteBody(body, quote))
    ELSE UnquoteFailed

\* strconv.Unquote: [ok, value].
Unquote(lit) ==
    IF Len(lit) < 2 THEN UnquoteFailed
    ELSE IF lit[1] # lit[Len(lit)] THEN UnquoteFailed
    ELSE UnquoteInner(lit[1], SubSeq(lit, 2, Len(lit) - 1))

RECURSIVE QuoteBody(_)
QuoteBody(s) ==
    IF s = <<>> THEN <<>>
    ELSE (CASE s[1] = "\"" -> <<"\\", "\"">>
            [] s[1] = "\\" -> <<"\\", "\\">>
            [] s[1] = "\n" -> <<"\\", "n">>
            [] s[1] = "\t" -> <<"\\", "t">>
            [] OTHER -> <<s[1]>>) \o QuoteBody(Tail(s))

\* strconv.Quote: a double-quoted Go string literal for s.
Quote(s) == <<"\"">> \o QuoteBody(s) \o <<"\"">>

(***************************************************************************)
(* go/parser.ParseFile in ImportsOnly mode, on the header layout           *)
(*     package NAME \n { import [ALIAS ] LITERAL \n } rest                  *)
(* The rest of the file is not parsed.                                      *)
(***************************************************************************)
kwPackage == <<"p","a","c","k","a","g","e">>

kwImport == <<"i","m","p","o","r","t">>

\* The characters that open a string literal.
StringQuotes == {"\"", BackQuote}

\* The characters go/parser's isValidImport rejects in an import path, with
\* the white space it rejects as well.
ImportIllegalChars ==
    {"!", "\"", "#", "$", "%", "&", "'", "(", ")", "*", ",", ":", ";", "<",
     "=", ">", "?", "[", "\\", "]", "^", "{", "|", "}", BackQuote, " ", "\n",
     "\t"}

ValidImportPath(u) ==
    /\ u.ok
    /\ u.value # <<>>
    /\ \A i \in 1..Len(u.value) : u.value[i] \notin ImportIllegalChars

\* go/parser's isValidImport.
IsValidImport(lit) == ValidImportPath(Unquote(lit))

\* Offset of the first byte at or after i that is no identifier character.
RECURSIVE IdentEnd(_, _)
IdentEnd(data, i) ==
    IF At(data, i) \in IdentChars THEN IdentEnd(data, i + 1) ELSE i

\* Offset just past the string literal whose body starts at j, -1 if it is
\* not terminated (go/scanner's scanString and scanRawString).
RECURSIVE StringEnd(_, _, _)
StringEnd(data, quote, j) ==
    IF j >= Len(data) THEN -1
    ELSE IF At(data, j) = quote THEN j + 1
    ELSE IF quote = "\"" /\ At(data, j) = "\n" THEN -1
    ELSE IF quote = "\"" /\ At(data, j) = "\\" THEN StringEnd(data, quote, j + 2)
    ELSE StringEnd(data, quote, j + 1)

ImportsFailed == [ok |-> FALSE, Imports |-> <<>>]

\* An import spec before the specs parsed after it.
ConsImport(spec, rest) ==
    IF rest.ok THEN [ok |-> TRUE, Imports |-> <<spec>> \o rest.Imports]
    ELSE rest

RECURSIVE ParseImports(_, _)

\* The path literal of an import spec, from offset p to e.
ParseImportLit(data, hasName, p, e) ==
    IF e > 0 /\ IsValidImport(Slice(data, p, e)) /\ At(data, e) \in {"\n", ""}
    THEN ConsImport([HasName |-> hasName,
                     Path |-> [Pos |-> p, End |-> e, Value |-> Slice(data, p, e)]],
                    ParseImports(data, e + 1))
    ELSE ImportsFailed

ParseImportPath(data, hasName, p) ==
    IF At(data, p) \in StringQuotes
    THEN ParseImportLit(data, hasName, p, StringEnd(data, At(data, p), p + 1))
    ELSE ImportsFailed

\* The name of an import spec (an identifier or a dot), from offset j to
\* nameEnd.
ParseImportName(data, j, nameEnd) ==
    IF /\ nameEnd > j
       /\ At(data, nameEnd) = " "
       /\ (At(data, j) = "." \/ IsIdentifier(Slice(data, j, nameEnd)))
    THEN ParseImportPath(data, TRUE, nameEnd + 1)
    ELSE ImportsFailed

\* One import spec, from offset j.
ParseImportSpec(data, j) ==
    IF At(data, j) \in StringQuotes THEN ParseImportPath(data, FALSE, j)
    ELSE IF At(data, j) = "." THEN ParseImportName(data, j, j + 1)
    ELSE ParseImportName(data, j, IdentEnd(data, j))

\* The import declarations from offset i on: [ok, Imports], each import spec
\* with HasName (spec.Name # nil) and Path (Pos, End, Value).
ParseImports(data, i) ==
    IF HasPrefixAt(data, i, kwImport \o <<" ">>)
    THEN ParseImportSpec(data, i + Len(kwImport) + 1)
    ELSE [ok |-> TRUE, Imports |-> <<>>]

ParseFailed ==
    [ok |-> FALSE, Name |-> [Pos |-> 0, End |-> 0, Name |-> <<>>],
     Imports |-> <<>>]

ParsedFile(name, imps) ==
    IF imps.ok THEN [ok |-> TRUE, Name |-> name, Imports |-> imps.Imports]
    ELSE ParseFailed

\* The package clause, its name from offset s to e, and what follows.
ParsePackageClause(data, s, e) ==
    IF IsIdentifier(Slice(data, s, e)) /\ At(data, e) \in {"\n", ""}
    THEN ParsedFile([Pos |-> s, End |-> e, Name |-> Slice(data, s, e)],
                    ParseImports(data, e + 1))
    ELSE ParseFailed

\* parser.ParseFile(fileSet, file, data, parser.ImportsOnly): [ok, Name,
\* Imports], Name with its span and text.
ParseFile(data) ==
    IF HasPrefix(data, kwPackage \o <<" ">>)
    THEN ParsePackageClause(data, Len(kwPackage) + 1,
                            IdentEnd(data, Len(kwPackage) + 1))
    ELSE ParseFailed

(***************************************************************************)
(* The patch buffer (internal/edit): the original bytes and a list of      *)
(* edits [start, end, new] over them; an insertion has start = end.        *)
(***************************************************************************)

\* Buffer.Insert(pos, text), as the edit it appends.
Insert(pos, text) == [start |-> pos, end |-> pos, new |-> text]

\* Buffer.Replace(start, end, text), as the edit it appends.
ReplaceEdit(start, end, text) == [start |-> start, end |-> end, new |-> text]

\* The order edits are applied in: by start, an insertion before a
\* replacement at the same start.
EditLess(a, b) ==
    \/ a.start < b.start
    \/ a.start = b.start /\ a.end = a.start /\ b.end > b.start

\* e placed after every edit of the sorted q that is not greater than it.
RECURSIVE InsertSorted(_, _)
InsertSorted(q, e) ==
    IF q = <<>> THEN <<e>>
    ELSE IF EditLess(e, q[1]) THEN <<e>> \o q
    ELSE <<q[1]>> \o InsertSorted(Tail(q), e)

\* The edits sorted, edits that compare equal kept in declaration order.
RECURSIVE SortEdits(_)
SortEdits(q) ==
    IF q = <<>> THEN <<>>
    ELSE InsertSorted(SortEdits(SubSeq(q, 1, Len(q) - 1)), q[Len(q)])

\* The bytes up to an edit and its text, before the bytes made of the rest.
Applied(head, r) ==
    IF r.ok THEN [ok |-> TRUE, bytes |-> head \o r.bytes] ELSE r

\* One pass over the original from offset on: each gap copied, each edit's
\* text substituted; not ok when an edit starts inside the previous one.
RECURSIVE ApplyEdits(_, _, _)
ApplyEdits(old, q, offset) ==
    IF q = <<>> THEN [ok |-> TRUE, bytes |-> Slice(old, offset, Len(old))]
    ELSE IF q[1].start < offset THEN [ok |-> FALSE, bytes |-> <<>>]
    ELSE Applied(Slice(old, offset, q[1].start) \o q[1].new,
                 ApplyEdits(old, Tail(q), q[1].end))

\* Buffer.Bytes(): [ok, bytes].
BufferBytes(old, q) == ApplyEdits(old, SortEdits(q), 0)

(***************************************************************************)
(* fixGo (cmd/init.go).                                                     *)
(***************************************************************************)
TestSuffix == <<"_","t","e","s","t">>

\* The rename of the package clause to dname, fatal when dname is no
\* identifier.
PackageRename(name, dname) ==
    IF ~IsIdentifier(dname)
    THEN [fatal |-> TRUE, edits |-> <<>>]
    ELSE [fatal |-> FALSE, edits |-> <<ReplaceEdit(name.Pos, name.End, dname)>>]

\* The package clause of fixGo, with srcName and dstName computed.
PackageClause(name, srcName, dstName, isRoot) ==
    IF isRoot /\ (name.Name = srcName \/ name.Name = srcName \o TestSuffix)
    THEN PackageRename(name, dstName \o TrimPrefix(name.Name, srcName))
    ELSE [fatal |-> FALSE, edits |-> <<>>]

\* The package clause of fixGo: [fatal, edits].
PackageEdits(f, srcMod, dstMod, isRoot) ==
    PackageClause(f.Name, Base(srcMod), Base(dstMod), isRoot)

\* Mutant: the alias is inserted before an import that has a name already.
SelfImportEditsAliased(spec, path, srcMod, dstMod, srcName, dstName) ==
    IF path = srcMod
    THEN (IF srcName # dstName
          THEN <<Insert(spec.Path.Pos, srcName \o <<" ">>)>>
          ELSE <<>>)
         \o <<ReplaceEdit(spec.Path.Pos, spec.Path.End, Quote(dstMod))>>
    ELSE <<>>

\* Mutant: the alias is inserted also when the package name stays the same.
SelfImportEditsRenamed(spec, path, srcMod, dstMod, srcName, dstName) ==
    IF path = srcMod
    THEN (IF ~spec.HasName
          THEN <<Insert(spec.Path.Pos, srcName \o <<" ">>)>>
          ELSE <<>>)
         \o <<ReplaceEdit(spec.Path.Pos, spec.Path.End, Quote(dstMod))>>
    ELSE <<>>

\* Mutant: the path is replaced before the alias is inserted.
SelfImportEditsReplaceFirst(spec, path, srcMod, dstMod, srcName, dstName) ==
    IF path = srcMod
    THEN <<ReplaceEdit(spec.Path.Pos, spec.Path.End, Quote(dstMod))>>
         \o (IF srcName # dstName /\ ~spec.HasName
             THEN <<Insert(spec.Path.Pos, srcName \o <<" ">>)>>
             ELSE <<>>)
    ELSE <<>>

\* The branch path == srcMod of fixGo's loop.
SelfImportEdits(spec, path, srcMod, dstMod, srcName, dstName) ==
    IF path = srcMod
    THEN (IF srcName # dstName /\ ~spec.HasName
          THEN <<Insert(spec.Path.Pos, srcName \o <<" ">>)>>
          ELSE <<>>)
         \o <<ReplaceEdit(spec.Path.Pos, spec.Path.End, Quote(dstMod))>>
    ELSE <<>>

\* Mutant: every occurrence of srcMod in the path is replaced.
SubpackageEditsAll(spec, path, srcMod, dstMod) ==
    IF HasPrefix(path, srcMod \o <<"/">>)
    THEN <<ReplaceEdit(spec.Path.Pos, spec.Path.End,
                       Quote(Replace(path, srcMod, dstMod, -1)))>>
    ELSE <<>>

\* Mutant: the prefix is matched without the slash that ends an element.
SubpackageEditsNoSlash(spec, path, srcMod, dstMod) ==
    IF HasPrefix(path, srcMod) /\ path # srcMod
    THEN <<ReplaceEdit(spec.Path.Pos, spec.Path.End,
                       Quote(Replace(path, srcMod, dstMod, 1)))>>
    ELSE <<>>

\* The branch strings.HasPrefix(path, srcMod+"/") of fixGo's loop.
SubpackageEdits(spec, path, srcMod, dstMod) ==
    IF HasPrefix(path, srcMod \o <<"/">>)
    THEN <<ReplaceEdit(spec.Path.Pos, spec.Path.End,
                       Quote(Replace(path, srcMod, dstMod, 1)))>>
    ELSE <<>>

\* One turn of fixGo's loop, with the path unquoted (u) and the names
\* computed.
UnquotedImportEdits(spec, u, srcMod, dstMod, srcName, dstName) ==
    IF ~u.ok THEN <<>>
    ELSE SelfImportEdits(spec, u.value, srcMod, dstMod, srcName, dstName)
         \o SubpackageEdits(spec, u.value, srcMod, dstMod)

\* One turn of fixGo's loop over f.Imports: the edits it hands to the
\* buffer for one import spec, in the order of the calls.
ImportEdits(spec, srcMod, dstMod) ==
    UnquotedImportEdits(spec, Unquote(spec.Path.Value), srcMod, dstMod,
                        Base(srcMod), Base(dstMod))

\* fixGo's loop over f.Imports.
RECURSIVE AllImportEdits(_, _, _)
AllImportEdits(imports, srcMod, dstMod) ==
    IF imports = <<>> THEN <<>>
    ELSE ImportEdits(imports[1], srcMod, dstMod)
         \o AllImportEdits(Tail(imports), srcMod, dstMod)

GoFatal(why, q) == [fatal |-> TRUE, why |-> why, out |-> <<>>, edits |-> q]

\* return buf.Bytes(), the edits q made.
FixGoBytes(q, b) ==
    IF b.ok THEN [fatal |-> FALSE, why |-> "", out |-> b.bytes, edits |-> q]
    ELSE GoFatal("overlap", q)

\* fixGo with every edit made.
FixGoEdited(data, q) == FixGoBytes(q, BufferBytes(data, q))

\* fixGo after the package clause (pk).
FixGoImports(data, f, pk, srcMod, dstMod) ==
    IF pk.fatal THEN GoFatal("package name", <<>>)
    ELSE FixGoEdited(data, pk.edits \o AllImportEdits(f.Imports, srcMod, dstMod))

\* fixGo after parser.ParseFile (f).
FixGoParsed(data, f, srcMod, dstMod, isRoot) ==
    IF ~f.ok THEN GoFatal("parse", <<>>)
    ELSE FixGoImports(data, f, PackageEdits(f, srcMod, dstMod, isRoot),
                      srcMod, dstMod)

\* fixGo(data, file, srcMod, dstMod, isRoot): [fatal, why, out, edits].
\* fatal is log.Fatalf (or the buffer's failure): the process ends.
fixGo(data, file, srcMod, dstMod, isRoot) ==
    FixGoParsed(data, ParseFile(data), srcMod, dstMod, isRoot)

(***************************************************************************)
(* module.CheckPath (golang.org/x/mod/module), for paths outside gopkg.in  *)
(* and without the Windows reserved file names.                             *)
(***************************************************************************)

\* The elements of a slash-separated path.
RECURSIVE SplitSlash(_)
SplitSlash(path) ==
    IF Contains(path, <<"/">>)
    THEN <<CutBefore(path, <<"/">>)>>
         \o SplitSlash(Slice(path, Index(path, <<"/">>) + 1, Len(path)))
    ELSE <<path>>

\* module.modPathOK
ModPathOK == IdentChars \cup {"-", ".", "~"}

\* module.firstPathOK
FirstPathOK == LowerLetters \cup Digits \cup {"-", "."}

\* module.checkElem for an element of a module path.
CheckElem(elem) ==
    /\ elem # <<>>
    /\ ~AllIn(elem, {"."})
    /\ elem[1] # "."
    /\ elem[Len(elem)] # "."
    /\ AllIn(elem, ModPathOK)

\* Offset where the trailing run of digits and dots of path starts.
RECURSIVE TrailingRun(_, _)
TrailingRun(path, i) ==
    IF i > 0 /\ At(path, i - 1) \in Digits \cup {"."}
    THEN TrailingRun(path, i - 1) ELSE i

\* module.SplitPathVersion's ok, the trailing run starting at i.
PathVersionOk(path, i) ==
    IF i <= 1 \/ i = Len(path) \/ At(path, i - 1) # "v" \/ At(path, i - 2) # "/"
    THEN TRUE
    ELSE ~(\/ Contains(Slice(path, i, Len(path)), <<".">>)
           \/ Len(path) - (i - 2) <= 2
           \/ At(path, i) = "0"
           \/ Slice(path, i - 2, Len(path)) = <<"/", "v", "1">>)

\* The ok result of module.SplitPathVersion.
SplitPathVersionOk(path) == PathVersionOk(path, TrailingRun(path, Len(path)))

\* The checks of module.CheckPath on the elements of the path.
CheckElems(elems) ==
    /\ \A k \in 1..Len(elems) : CheckElem(elems[k])
    /\ elems[1] # <<>>
    /\ Contains(elems[1], <<".">>)
    /\ AllIn(elems[1], FirstPathOK)

\* module.CheckPath: whether the error is nil.
CheckPath(path) ==
    /\ path # <<>>
    /\ path[1] # "-"
    /\ ~Contains(path, <<"/", "/">>)
    /\ path[Len(path)] # "/"
    /\ CheckElems(SplitSlash(path))
    /\ SplitPathVersionOk(path)

(***************************************************************************)
(* fixGoMod (cmd/init.go) over modfile's ParseLax, AddModuleStmt and       *)
(* Format, on a go.mod of one-line statements.                              *)
(***************************************************************************)
kwModule == <<"m","o","d","u","l","e">>

\* The statements of a go.mod: its lines, without the empty text after the
\* last line feed.
RECURSIVE ModLines(_)
ModLines(data) ==
    IF data = <<>> THEN <<>>
    ELSE IF Contains(data, <<"\n">>)
    THEN <<CutBefore(data, <<"\n">>)>>
         \o ModLines(Slice(data, Index(data, <<"\n">>) + 1, Len(data)))
    ELSE <<data>>

\* Whether the quotes of a line are closed (modfile's lexer).
RECURSIVE QuotesClosed(_, _)
QuotesClosed(line, open) ==
    IF line = <<>> THEN ~open
    ELSE QuotesClosed(Tail(line), IF line[1] = "\"" THEN ~open ELSE open)

IsModuleLine(line) == HasPrefix(line, kwModule \o <<" ">>)

\* modfile.ParseLax's error is nil: every line lexes, and a module
\* statement names one path.
ParseLaxOk(lines) ==
    \A i \in 1..Len(lines) :
        /\ QuotesClosed(lines[i], FALSE)
        /\ IsModuleLine(lines[i]) =>
               /\ Len(lines[i]) > Len(kwModule) + 1
               /\ ~Contains(Slice(lines[i], Len(kwModule) + 1, Len(lines[i])),
                            <<" ">>)

\* modfile.ParseLax("go.mod", data, nil): [ok, lines].
ParseLax(data) == [ok |-> ParseLaxOk(ModLines(data)), lines |-> ModLines(data)]

\* The characters that make modfile.MustQuote true.
MustQuoteChars == {" ", "\"", "'", BackQuote, "(", ")", "[", "]", "{", "}", ","}

\* modfile.AutoQuote
AutoQuote(s) ==
    IF s = <<>> \/ \E i \in 1..Len(s) : s[i] \in MustQuoteChars
    THEN Quote(s) ELSE s

ModuleStmt(path) == kwModule \o <<" ">> \o AutoQuote(path)

\* File.AddModuleStmt(path): the module statement rewritten in place, or
\* added as the last line when the file has none.
AddModuleStmt(lines, path) ==
    IF \E i \in 1..Len(lines) : IsModuleLine(lines[i])
    THEN [i \in 1..Len(lines) |->
             IF IsModuleLine(lines[i]) THEN ModuleStmt(path) ELSE lines[i]]
    ELSE lines \o <<ModuleStmt(path)>>

\* File.Format(): every statement on a line of its own.
RECURSIVE Format(_)
Format(lines) ==
    IF lines = <<>> THEN <<>>
    ELSE lines[1] \o <<"\n">> \o Format(Tail(lines))

\* fixGoMod after modfile.ParseLax (file); formatFails is Format's error.
FixGoModParsed(data, file, dstMod, formatFails) ==
    IF ~file.ok THEN [fatal |-> TRUE, why |-> "go.mod", out |-> <<>>]
    ELSE IF formatFails THEN [fatal |-> FALSE, why |-> "", out |-> data]
    ELSE [fatal |-> FALSE, why |-> "",
          out |-> Format(AddModuleStmt(file.lines, dstMod))]

\* fixGoMod(data, dstMod): [fatal, why, out].
fixGoMod(data, dstMod, formatFails) ==
    FixGoModParsed(data, ParseLax(data), dstMod, formatFails)

(***************************************************************************)
(* readConfig's YAML (flat "key: text" lines) and generateFile's template  *)
(* (text with {{.key}} actions).                                            *)
(***************************************************************************)

\* One line "key: text" of the configuration, as [key, val].
YamlEntry(line) ==
    [key |-> CutBefore(line, <<":", " ">>),
     val |-> Slice(line, Index(line, <<":", " ">>) + 2, Len(line))]

YamlLineOk(line) ==
    Contains(line, <<":", " ">>) /\ IsIdentifier(CutBefore(line, <<":", " ">>))

\* yaml.Unmarshal(data, &config) into a map[string]string: [ok, config],
\* config a sequence of [key, val].
ParseYaml(data) ==
    [ok |-> \A i \in 1..Len(ModLines(data)) : YamlLineOk(ModLines(data)[i]),
     config |-> [i \in 1..Len(ModLines(data)) |-> YamlEntry(ModLines(data)[i])]]

\* What text/template prints for a key the map lacks.
NoValue == <<"<", "n", "o", " ", "v", "a", "l", "u", "e", ">">>

\* The value of data[key] as the template prints it.
Lookup(data, key) ==
    IF \E i \in 1..Len(data) : data[i].key = key
    THEN data[CHOOSE i \in 1..Len(data) : data[i].key = key].val
    ELSE NoValue

TemplateFailed == [ok |-> FALSE, bytes |-> <<>>]

\* An action is a field of the data: a dot and a key.
IsField(action) ==
    Len(action) >= 2 /\ action[1] = "." /\ IsIdentifier(Tail(action))

\* The text before an action, the action and the expansion of what follows.
ExpandField(head, action, data, rest) ==
    IF rest.ok /\ IsField(action)
    THEN [ok |-> TRUE, bytes |-> head \o Lookup(data, Tail(action)) \o rest.bytes]
    ELSE TemplateFailed

RECURSIVE Expand(_, _)

\* The action that opens at offset i and closes at offset j.
ExpandAction(s, data, i, j) ==
    IF j < 0 THEN TemplateFailed
    ELSE ExpandField(Slice(s, 0, i), Slice(s, i + 2, j), data,
                     Expand(Slice(s, j + 2, Len(s)), data))

ExpandFrom(s, data, i) ==
    ExpandAction(s, data, i, IndexFrom(s, <<"}", "}">>, i + 2))

\* template.New(fileName).Parse(content) and tmpl.Execute(file, data):
\* [ok, bytes]; not ok is Parse's error.
Expand(s, data) ==
    IF Contains(s, <<"{", "{">>) THEN ExpandFrom(s, data, Index(s, <<"{", "{">>))
    ELSE [ok |-> TRUE, bytes |-> s]

(***************************************************************************)
(* State.                                                                   *)
(***************************************************************************)
VARIABLES
    goIn,       \* fixGo's arguments for one call, with the header they render
    goRes,      \* that call's result
    pc,         \* where initProject is
    args,       \* the command line: [src, dst, hasDst]
    src,        \* the package variable src
    dst,        \* the package variable dst
    dirState,   \* the target directory before the run: absent, empty, nonempty
    needMkdir,  \* initProject's needMkdir
    tree,       \* the fetched module, in filepath.WalkDir's order
    idx,        \* how many entries of tree the walk has visited
    dstDirs,    \* the directories created under the target directory
    dstFiles,   \* the files written under the target directory: rel -> bytes
    io,         \* every filesystem and network operation performed, in order
    cause,      \* why the process ended in log.Fatal, "" if it has not
    modCall,    \* the last call of fixGoMod: [called, formatFailed, dstMod, out]
    prompts,    \* readConfig's result: key -> prompt text
    inputs,     \* runPrompts' result: key -> answer
    genIdx      \* how many entries replaceVars' walk has visited

goVars == <<goIn, goRes>>

progVars == <<pc, args, src, dst, dirState, needMkdir, tree, idx, dstDirs,
              dstFiles, io, cause, modCall, prompts, inputs, genIdx>>

vars == <<goIn, goRes, pc, args, src, dst, dirState, needMkdir, tree, idx,
          dstDirs, dstFiles, io, cause, modCall, prompts, inputs, genIdx>>

(***************************************************************************)
(* Inputs.                                                                  *)
(***************************************************************************)

\* The most import declarations of a generated source file.
MaxImports == 2

modB == <<"x", ".", "y", "/", "b">>

modC == <<"x", ".", "y", "/", "c">>

modOtherHost == <<"x", ".", "z", "/", "b">>

modDash == <<"x", ".", "y", "/", "b", "-", "c">>

SrcMods == {modB}

DstMods == {modB, modC, modOtherHost, modDash}

PkgNames == { <<"b">>, <<"b">> \o TestSuffix, <<"m","a","i","n">> }

\* A raw string literal.
RawQuote(s) == <<BackQuote>> \o s \o <<BackQuote>>

\* An interpreted literal whose last byte is written as a \xHH escape.
EscapedQuote(s) ==
    <<"\"">> \o SubSeq(s, 1, Len(s) - 1) \o <<"\\", "x">>
    \o (CHOOSE h \in DOMAIN HexChar : HexChar[h] = s[Len(s)]) \o <<"\"">>

\* The import specs of the generated files, for old identity O: [alias, lit].
ImportChoices(O) ==
    { [alias |-> <<>>, lit |-> Quote(O)],
      [alias |-> <<"m">>, lit |-> Quote(O)],
      [alias |-> <<>>, lit |-> RawQuote(O)],
      [alias |-> <<>>, lit |-> EscapedQuote(O)],
      [alias |-> <<>>, lit |-> Quote(O \o <<"/">> \o O)],
      [alias |-> <<"_">>, lit |-> RawQuote(O \o <<"/", "s">>)],
      [alias |-> <<>>, lit |-> Quote(O \o <<"c">>)],
      [alias |-> <<>>, lit |-> Quote(<<"f", "m", "t">>)],
      [alias |-> <<>>, lit |-> <<"\"", "\"">>] }

\* The text after the imports: a declaration that mentions O in a string.
Body(O) == <<"v", "a", "r", " ", "s", " ", "=", " ">> \o Quote(O) \o <<"\n">>

ImportLine(imp) ==
    kwImport \o <<" ">>
    \o (IF imp.alias = <<>> THEN <<>> ELSE imp.alias \o <<" ">>)
    \o imp.lit \o <<"\n">>

RECURSIVE ImportLines(_)
ImportLines(imports) ==
    IF imports = <<>> THEN <<>>
    ELSE ImportLine(imports[1]) \o ImportLines(Tail(imports))

PackageLine(pkg) == kwPackage \o <<" ">> \o pkg \o <<"\n">>

\* The bytes of a source file with this header.
Render(pkg, imports, O) == PackageLine(pkg) \o ImportLines(imports) \o Body(O)

ImportLists(O) == UNION { [1..n -> ImportChoices(O)] : n \in 0..MaxImports }

\* The calls of fixGo: identities that passed module.CheckPath, a file of
\* the module, and whether it lies in the module root.
GoInputs ==
    { [pkg |-> p, imports |-> im, data |-> Render(p, im, O),
       srcMod |-> O, dstMod |-> N, isRoot |-> r] :
        p \in PkgNames, im \in ImportLists(modB),
        O \in {o \in SrcMods : CheckPath(o)},
        N \in {n \in DstMods : CheckPath(n)}, r \in BOOLEAN }

GoIdle == [called |-> FALSE, fatal |-> FALSE, why |-> "", out |-> <<>>,
           edits |-> <<>>]

NoGoInput == [pkg |-> <<>>, imports |-> <<>>, data |-> <<>>, srcMod |-> <<>>,
              dstMod |-> <<>>, isRoot |-> FALSE]

NoModCall == [called |-> FALSE, formatFailed |-> FALSE, dstMod |-> <<>>,
              out |-> <<>>]

\* initProject at rest: the state of its variables while only fixGo runs.
ProgIdle ==
    /\ pc = "idle"
    /\ args = [src |-> <<>>, dst |-> <<>>, hasDst |-> FALSE]
    /\ src = <<>>
    /\ dst = <<>>
    /\ dirState = "absent"
    /\ needMkdir = FALSE
    /\ tree = <<>>
    /\ idx = 0
    /\ dstDirs = {}
    /\ dstFiles = <<>>
    /\ io = <<>>
    /\ cause = ""
    /\ modCall = NoModCall
    /\ prompts = <<>>
    /\ inputs = <<>>
    /\ genIdx = 0

(***************************************************************************)
(* fixGo as a function: one call on each input.                             *)
(***************************************************************************)
InitFixGo ==
    /\ goIn \in GoInputs
    /\ goRes = GoIdle
    /\ ProgIdle

FixGoCall ==
    /\ ~goRes.called
    /\ goRes' = [called |-> TRUE] @@
                fixGo(goIn.data, <<>>, goIn.srcMod, goIn.dstMod, goIn.isRoot)
    /\ UNCHANGED goIn
    /\ UNCHANGED progVars

NextFixGo == FixGoCall

SpecFixGo == InitFixGo /\ [][NextFixGo]_vars

(***************************************************************************)
(* initProject: the command line, the target directory and the fetched     *)
(* module it may meet.                                                      *)
(***************************************************************************)
relRoot == <<".">>

relReadme == <<"R", "E", "A", "D", "M", "E">>

relGoMod == <<"g", "o", ".", "m", "o", "d">>

relRootGo == <<"b", ".", "g", "o">>

relSub == <<"s">>

relSubGoMod == relSub \o <<"/">> \o relGoMod

relSubGo == relSub \o <<"/", "x", ".", "g", "o">>

relTemplate == <<"t", "e", "m", "p", "l", "a", "t", "e", ".", "y", "a", "m", "l">>

goSuffix == <<".", "g", "o">>

\* filepath.Separator
Separator == <<"/">>

\* info.Dir: the directory of the module cache that holds the fetched module.
InfoDir == <<"/", "m", "/", "x", ".", "y", "/", "b", "@", "v", "2">>

Dir(rel) == [rel |-> rel, isDir |-> TRUE, data |-> <<>>]

File(rel, data) == [rel |-> rel, isDir |-> FALSE, data |-> data]

selfImport == [alias |-> <<>>, lit |-> Quote(modB)]

badImport == [alias |-> <<>>, lit |-> <<"\"", "\"">>]

ReadmeChoices ==
    { <<"h", "i", "\n">>, <<"{", "{", ".", "k", "}", "}", "\n">> }

GoModChoices ==
    { kwModule \o <<" ">> \o modB \o <<"\n", "g", "o", " ", "1", ".", "2", "0", "\n">>,
      kwModule \o <<" ", "\"">> \o modB \o <<"\n">> }

GoFileChoices ==
    { Render(<<"b">>, <<selfImport>>, modB), Render(<<"b">>, <<badImport>>, modB) }

subGoMod == kwModule \o <<" ">> \o modB \o <<"/", "s", "\n">>

TemplateChoices == { <<"k", ":", " ", "d", "\n">> }

\* The optional entries: none, or one of the choices.
Optional(choices) == {<<>>} \cup { <<c>> : c \in choices }

\* A module directory in filepath.WalkDir's order: lexical within each
\* directory, a directory before what it holds.
Tree(readme, rootGo, goMod, subGo, template) ==
    <<Dir(relRoot), File(relReadme, readme), File(relRootGo, rootGo),
      File(relGoMod, goMod)>>
    \o (IF subGo = <<>> THEN <<>>
        ELSE <<Dir(relSub), File(relSubGoMod, subGoMod), File(relSubGo, subGo[1])>>)
    \o (IF template = <<>> THEN <<>> ELSE <<File(relTemplate, template[1])>>)

Trees ==
    { Tree(r, b, g, x, t) :
        r \in ReadmeChoices, b \in GoFileChoices, g \in GoModChoices,
        x \in Optional(GoFileChoices), t \in Optional(TemplateChoices) }

\* The command lines: the source with or without a version, or a path with
\* no dot in its first element; no destination, a valid one, one whose base
\* is no identifier, or one with an empty element.
ArgChoices ==
    { [src |-> a, hasDst |-> h, dst |-> d] :
        a \in { modB, modB \o <<"@", "v", "2">>, <<"a", "/", "b">> },
        h \in BOOLEAN,
        d \in { modC, modDash, <<"x", ".", "y", "/", "/", "c">> } }

\* The answers typed at a prompt.
Answers == { <<"q">> }

Init ==
    /\ goIn = NoGoInput
    /\ goRes = GoIdle
    /\ pc = "start"
    /\ args \in { a \in ArgChoices : a.hasDst \/ a.dst = modC }
    /\ src = <<>>
    /\ dst = <<>>
    /\ dirState \in {"absent", "empty", "nonempty"}
    /\ needMkdir = FALSE
    /\ tree \in Trees
    /\ idx = 0
    /\ dstDirs = {}
    /\ dstFiles = <<>>
    /\ io = <<>>
    /\ cause = ""
    /\ modCall = NoModCall
    /\ prompts = <<>>
    /\ inputs = <<>>
    /\ genIdx = 0

(***************************************************************************)
(* initProject, step by step.                                               *)
(***************************************************************************)

\* One operation on the filesystem or the network, and whether it succeeded.
Op(op, path, ok) == [op |-> op, path |-> path, ok |-> ok]

\* log.Fatal: the process exits.
Die(why) == pc' = "fatal" /\ cause' = why

\* module.CheckPath(src) == nil
SrcValid(path) == CheckPath(path)

\* Mutant: the destination is not checked.
DstUnchecked(path) == TRUE

\* module.CheckPath(dst) == nil
DstValid(path) == CheckPath(path)

\* src = args[0] cut at "@", checked.
CheckSrc ==
    /\ pc = "start"
    /\ src' = CutBefore(args.src, <<"@">>)
    /\ IF SrcValid(CutBefore(args.src, <<"@">>))
       THEN pc' = "checkdst" /\ cause' = cause
       ELSE Die("invalid source")
    /\ UNCHANGED <<args, dst, dirState, needMkdir, tree, idx, dstDirs,
                   dstFiles, io, modCall, prompts, inputs, genIdx>>
    /\ UNCHANGED goVars

\* dst = src, or args[1] checked.
CheckDst ==
    /\ pc = "checkdst"
    /\ dst' = IF args.hasDst THEN args.dst ELSE src
    /\ IF args.hasDst /\ ~DstValid(args.dst)
       THEN Die("invalid destination")
       ELSE pc' = "readdir" /\ cause' = cause
    /\ UNCHANGED <<args, src, dirState, needMkdir, tree, idx, dstDirs,
                   dstFiles, io, modCall, prompts, inputs, genIdx>>
    /\ UNCHANGED goVars

\* dir = "." + Separator + path.Base(dst)
TargetDir == <<".">> \o Separator \o Base(dst)

\* os.ReadDir(dir): the target must not exist or be empty.
ReadDir ==
    /\ pc = "readdir"
    /\ io' = io \o <<Op("ReadDir", TargetDir, dirState # "absent")>>
    /\ needMkdir' = (dirState = "absent")
    /\ IF dirState = "nonempty"
       THEN Die("target directory exists and is non-empty")
       ELSE pc' = "download" /\ cause' = cause
    /\ UNCHANGED <<args, src, dst, dirState, tree, idx, dstDirs, dstFiles,
                   modCall, prompts, inputs, genIdx>>
    /\ UNCHANGED goVars

\* ver: the source argument, at latest when it names no version.
Ver ==
    IF Contains(args.src, <<"@">>) THEN args.src
    ELSE args.src \o <<"@", "l", "a", "t", "e", "s", "t">>

\* go mod download -json ver, and its JSON output.
Download ==
    /\ pc = "download"
    /\ \E ok \in BOOLEAN :
        /\ io' = io \o <<Op("Download", Ver, ok)>>
        /\ IF ok THEN pc' = "mkdir" /\ cause' = cause
           ELSE Die("go mod download")
    /\ UNCHANGED <<args, src, dst, dirState, needMkdir, tree, idx, dstDirs,
                   dstFiles, modCall, prompts, inputs, genIdx>>
    /\ UNCHANGED goVars

\* os.MkdirAll(dir) if needMkdir.
MkdirTarget ==
    /\ pc = "mkdir"
    /\ \E ok \in (IF needMkdir THEN BOOLEAN ELSE {TRUE}) :
        /\ io' = IF needMkdir THEN io \o <<Op("MkdirAll", TargetDir, ok)>> ELSE io
        /\ IF ok THEN pc' = "walk" /\ cause' = cause
           ELSE Die("mkdir target")
    /\ UNCHANGED <<args, src, dst, dirState, needMkdir, tree, idx, dstDirs,
                   dstFiles, modCall, prompts, inputs, genIdx>>
    /\ UNCHANGED goVars

\* What one call of the walk function did: the operations it performed, the
\* directory it made or the file it wrote, and the call of fixGoMod if any.
WalkFatal(why, ops) ==
    [fatal |-> TRUE, why |-> why, ops |-> ops, mkdir |-> FALSE,
     write |-> FALSE, data |-> <<>>, mod |-> NoModCall]

\* os.WriteFile(dstPath, data, 0666), after the file was read and fixed (m).
WalkWrite(e, m, fault, mod) ==
    IF m.fatal THEN WalkFatal(m.why, <<Op("ReadFile", e.rel, TRUE)>>)
    ELSE IF fault = "write"
    THEN WalkFatal("write", <<Op("ReadFile", e.rel, TRUE),
                              Op("WriteFile", e.rel, FALSE)>>)
    ELSE [fatal |-> FALSE, why |-> "",
          ops |-> <<Op("ReadFile", e.rel, TRUE), Op("WriteFile", e.rel, TRUE)>>,
          mkdir |-> FALSE, write |-> TRUE, data |-> m.out, mod |-> mod]

\* The record of a call of fixGoMod.
ModCalled(m, dstMod, formatFails) ==
    [called |-> TRUE, formatFailed |-> formatFails, dstMod |-> dstMod,
     out |-> m.out]

\* Mutant: every file named go.mod is taken for the module's manifest.
WalkGoModAnywhere(e, g, fault, dstMod, formatFails) ==
    IF g.fatal THEN WalkFatal(g.why, <<Op("ReadFile", e.rel, TRUE)>>)
    ELSE IF HasSuffix(e.rel, relGoMod)
    THEN WalkWrite(e, fixGoMod(g.out, dstMod, formatFails), fault,
                   ModCalled(fixGoMod(g.out, dstMod, formatFails), dstMod,
                             formatFails))
    ELSE WalkWrite(e, g, fault, NoModCall)

\* if rel == "go.mod" { data = fixGoMod(data, dst) }, after fixGo (g).
WalkGoMod(e, g, fault, dstMod, formatFails) ==
    IF g.fatal THEN WalkFatal(g.why, <<Op("ReadFile", e.rel, TRUE)>>)
    ELSE IF e.rel = relGoMod
    THEN WalkWrite(e, fixGoMod(g.out, dstMod, formatFails), fault,
                   ModCalled(fixGoMod(g.out, dstMod, formatFails), dstMod,
                             formatFails))
    ELSE WalkWrite(e, g, fault, NoModCall)

\* The walk function's parameter src, the path of the entry it visits. It
\* shadows the package's variable src in the whole walk function.
WalkSrc(e) == IF e.rel = relRoot THEN InfoDir ELSE InfoDir \o Separator \o e.rel

\* Mutant: a source file that cannot be rewritten is copied as it is.
WalkFixGoLenient(e, g) == IF g.fatal THEN [g EXCEPT !.fatal = FALSE, !.out = e.data] ELSE g

\* The result of fixGo as the walk function takes it.
WalkFixGo(e, g) == g

\* if strings.HasSuffix(rel, ".go") { data = fixGo(data, rel, src, dst, isRoot) }
\* where src is the walk function's parameter and dst the package's variable.
WalkGo(e, dstMod) ==
    IF HasSuffix(e.rel, goSuffix)
    THEN WalkFixGo(e, fixGo(e.data, e.rel, WalkSrc(e), dstMod,
                            ~Contains(e.rel, Separator)))
    ELSE [fatal |-> FALSE, why |-> "", out |-> e.data, edits |-> <<>>]

\* The walk function of filepath.WalkDir on entry e; fault is the operation
\* the system fails, if any.
WalkFn(e, fault, dstMod, formatFails) ==
    IF fault = "walk" THEN WalkFatal("walk", <<>>)
    ELSE IF e.isDir THEN
        IF fault = "mkdir"
        THEN WalkFatal("mkdir", <<Op("MkdirAll", e.rel, FALSE)>>)
        ELSE [fatal |-> FALSE, why |-> "",
              ops |-> <<Op("MkdirAll", e.rel, TRUE)>>, mkdir |-> TRUE,
              write |-> FALSE, data |-> <<>>, mod |-> NoModCall]
    ELSE IF fault = "read"
    THEN WalkFatal("read", <<Op("ReadFile", e.rel, FALSE)>>)
    ELSE WalkGoMod(e, WalkGo(e, dstMod), fault, dstMod, formatFails)

\* The operations the system may fail on an entry.
WalkFaults(e) ==
    {"none", "walk"} \cup (IF e.isDir THEN {"mkdir"} ELSE {"read", "write"})

\* The effect of one call of the walk function (r) on entry e.
WalkApply(e, r) ==
    /\ io' = io \o r.ops
    /\ idx' = IF r.fatal THEN idx ELSE idx + 1
    /\ dstDirs' = IF r.mkdir THEN dstDirs \cup {e.rel} ELSE dstDirs
    /\ dstFiles' = IF r.write THEN (e.rel :> r.data) @@ dstFiles ELSE dstFiles
    /\ modCall' = IF r.mod.called THEN r.mod ELSE modCall
    /\ IF r.fatal THEN Die(r.why)
       ELSE /\ pc' = IF idx + 1 = Len(tree) THEN "config" ELSE "walk"
            /\ cause' = cause

\* filepath.WalkDir(info.Dir, ...): one entry of the module.
WalkEntry ==
    /\ pc = "walk"
    /\ idx < Len(tree)
    /\ \E fault \in WalkFaults(tree[idx + 1]) :
       \E formatFails \in (IF tree[idx + 1].rel = relGoMod THEN BOOLEAN ELSE {FALSE}) :
           WalkApply(tree[idx + 1],
                     WalkFn(tree[idx + 1], fault, dst, formatFails))
    /\ UNCHANGED <<args, src, dst, dirState, needMkdir, tree, prompts,
                   inputs, genIdx>>
    /\ UNCHANGED goVars

\* readConfig(templateFile) with the file's content parsed (y).
ConfigRead(y) ==
    IF y.ok THEN pc' = "prompt" /\ cause' = cause /\ prompts' = y.config
    ELSE Die("config") /\ prompts' = prompts

\* prompts, err := readConfig(filepath.Join(dir, "template.yaml"))
ReadConfig ==
    /\ pc = "config"
    /\ \E ok \in (IF relTemplate \in DOMAIN dstFiles THEN BOOLEAN ELSE {FALSE}) :
        /\ io' = io \o <<Op("ReadFile", relTemplate, ok)>>
        /\ IF ok THEN ConfigRead(ParseYaml(dstFiles[relTemplate]))
           ELSE Die("config") /\ prompts' = prompts
    /\ UNCHANGED <<args, src, dst, dirState, needMkdir, tree, idx, dstDirs,
                   dstFiles, modCall, inputs, genIdx>>
    /\ UNCHANGED goVars

\* inputs, err := runPrompts(prompts): an answer to every prompt, or the
\* user's interrupt (no answer).
RunPrompts ==
    /\ pc = "prompt"
    /\ \E answer \in Answers \cup (IF prompts = <<>> THEN {} ELSE {<<>>}) :
        IF answer = <<>>
        THEN Die("prompt") /\ inputs' = inputs
        ELSE /\ pc' = "generate"
             /\ cause' = cause
             /\ inputs' = [i \in 1..Len(prompts) |->
                              [key |-> prompts[i].key, val |-> answer]]
    /\ UNCHANGED <<args, src, dst, dirState, needMkdir, tree, idx, dstDirs,
                   dstFiles, io, modCall, prompts, genIdx>>
    /\ UNCHANGED goVars

\* What filepath.Walk(dir, ...) visits: the target directory's entries, in
\* the order of their names.
Generated ==
    SelectSeq(tree, LAMBDA e : e.rel \in dstDirs \/ e.rel \in DOMAIN dstFiles)

GenFatal(why, ops) == [fatal |-> TRUE, why |-> why, ops |-> ops, data |-> <<>>]

\* generateFile(inputs, relPath, content, dir) with the template executed (t).
GenerateWrite(e, t, fault) ==
    IF ~t.ok THEN GenFatal("template", <<Op("ReadFile", e.rel, TRUE)>>)
    ELSE IF fault = "create"
    THEN GenFatal("create", <<Op("ReadFile", e.rel, TRUE), Op("Create", e.rel, FALSE)>>)
    ELSE [fatal |-> FALSE, why |-> "",
          ops |-> <<Op("ReadFile", e.rel, TRUE), Op("Create", e.rel, TRUE)>>,
          data |-> t.bytes]

\* The walk function of replaceVars on entry e of the target directory.
GenerateFn(e, fault, content, data) ==
    IF fault = "walk" THEN GenFatal("generate walk", <<>>)
    ELSE IF e.isDir
    THEN [fatal |-> FALSE, why |-> "", ops |-> <<>>, data |-> <<>>]
    ELSE IF fault = "read" THEN GenFatal("generate read", <<Op("ReadFile", e.rel, FALSE)>>)
    ELSE GenerateWrite(e, Expand(content, data), fault)

GenerateApply(e, r) ==
    /\ io' = io \o r.ops
    /\ genIdx' = IF r.fatal THEN genIdx ELSE genIdx + 1
    /\ dstFiles' = IF ~r.fatal /\ ~e.isDir THEN (e.rel :> r.data) @@ dstFiles
                   ELSE dstFiles
    /\ IF r.fatal THEN Die(r.why)
       ELSE /\ pc' = IF genIdx + 1 = Len(Generated) THEN "done" ELSE "generate"
            /\ cause' = cause

\* replaceVars(dir, inputs): one entry of the target directory; after the
\* last, log.Printf("initialized ...").
GenerateFile ==
    /\ pc = "generate"
    /\ genIdx < Len(Generated)
    /\ \E fault \in (IF Generated[genIdx + 1].isDir THEN {"none", "walk"}
                     ELSE {"none", "walk", "read", "create"}) :
           GenerateApply(Generated[genIdx + 1],
                         GenerateFn(Generated[genIdx + 1], fault,
                                    IF Generated[genIdx + 1].isDir THEN <<>>
                                    ELSE dstFiles[Generated[genIdx + 1].rel],
                                    inputs))
    /\ UNCHANGED <<args, src, dst, dirState, needMkdir, tree, idx, dstDirs,
                   modCall, prompts, inputs>>
    /\ UNCHANGED goVars

Next ==
    \/ CheckSrc
    \/ CheckDst
    \/ ReadDir
    \/ Download
    \/ MkdirTarget
    \/ WalkEntry
    \/ ReadConfig
    \/ RunPrompts
    \/ GenerateFile

Spec == Init /\ [][Next]_vars

(***************************************************************************)
(* Properties of fixGo, stated on the header the input was rendered from.  *)
(***************************************************************************)

\* The lines of a text (the text between line feeds).
RECURSIVE SplitLines(_)
SplitLines(s) ==
    LET i == Index(s, <<"\n">>)
    IN  IF i < 0 THEN <<s>>
        ELSE <<Slice(s, 0, i)>> \o SplitLines(Slice(s, i + 1, Len(s)))

\* fixGo returned bytes.
GoReturned == goRes.called /\ ~goRes.fatal

GoOutLine(n) == SplitLines(goRes.out)[n]

GoInLine(n) == SplitLines(goIn.data)[n]

\* The unquoted path of the k-th import of the input.
GoPath(k) == Unquote(goIn.imports[k].lit).value

\* What precedes the path literal on the line of the k-th import.
GoImportPrefix(k) ==
    kwImport \o <<" ">>
    \o (IF goIn.imports[k].alias = <<>> THEN <<>>
        ELSE goIn.imports[k].alias \o <<" ">>)

\* The offset of the path literal of the k-th import of the input.
GoLitPos(k) ==
    Len(PackageLine(goIn.pkg)) + Len(ImportLines(SubSeq(goIn.imports, 1, k - 1)))
    + Len(GoImportPrefix(k))

GoLitEnd(k) == GoLitPos(k) + Len(goIn.imports[k].lit)

\* The edits made at or inside the path literal of the k-th import, in the
\* order fixGo made them.
GoEditsAt(k) ==
    SelectSeq(goRes.edits,
              LAMBDA e : e.start >= GoLitPos(k) /\ e.start < GoLitEnd(k))

GoIsSelf(k) == GoPath(k) = goIn.srcMod

GoIsSub(k) == HasPrefix(GoPath(k), goIn.srcMod \o <<"/">>)

GoNamesDiffer == Base(goIn.srcMod) # Base(goIn.dstMod)

\* C1: for every import whose unquoted path is the old identity, the path
\* literal is replaced by the quoted new identity, and base(O)+" " is
\* inserted right before it exactly when base(O) # base(N) and the import
\* has no name; so an unnamed import "x.y/b" reads b "x.y/c" afterwards and
\* a named one keeps its name.
C1_SelfImport ==
    GoReturned =>
        \A k \in 1..Len(goIn.imports) :
            GoIsSelf(k) =>
                LET ins == GoNamesDiffer /\ goIn.imports[k].alias = <<>>
                    alias == Base(goIn.srcMod) \o <<" ">>
                IN  /\ GoEditsAt(k) =
                         (IF ins THEN <<Insert(GoLitPos(k), alias)>> ELSE <<>>)
                         \o <<ReplaceEdit(GoLitPos(k), GoLitEnd(k),
                                          Quote(goIn.dstMod))>>
                    /\ GoOutLine(k + 1) =
                         GoImportPrefix(k) \o (IF ins THEN alias ELSE <<>>)
                         \o Quote(goIn.dstMod)

\* C1's case: a file was rewritten that imports the old identity both
\* without a name (the alias was inserted) and with one, the base names
\* differing.
C1_Witness ==
    /\ GoReturned
    /\ GoNamesDiffer
    /\ \E k \in 1..Len(goIn.imports) :
           /\ GoIsSelf(k)
           /\ goIn.imports[k].alias = <<>>
           /\ GoOutLine(k + 1) =
                  kwImport \o <<" ", "b", " ">> \o Quote(modC)
    /\ \E k \in 1..Len(goIn.imports) :
           GoIsSelf(k) /\ goIn.imports[k].alias # <<>>

\* C2: for every import whose unquoted path is O/rest, the one edit of its
\* path literal replaces exactly the literal by the quoted N/rest, O being
\* substituted only where it leads, and the line reads so afterwards.
C2_Subpackage ==
    GoReturned =>
        \A k \in 1..Len(goIn.imports) :
            GoIsSub(k) =>
                LET rest == Slice(GoPath(k), Len(goIn.srcMod), Len(GoPath(k)))
                    lit == Quote(goIn.dstMod \o rest)
                IN  /\ GoEditsAt(k) =
                         <<ReplaceEdit(GoLitPos(k), GoLitEnd(k), lit)>>
                    /\ GoOutLine(k + 1) = GoImportPrefix(k) \o lit

\* C2's case: a subpackage import whose rest holds the old identity again
\* was rewritten to a different identity.
C2_Witness ==
    /\ GoReturned
    /\ goIn.dstMod = modC
    /\ \E k \in 1..Len(goIn.imports) :
           /\ GoIsSub(k)
           /\ Contains(Slice(GoPath(k), Len(goIn.srcMod), Len(GoPath(k))),
                       goIn.srcMod)
           /\ GoOutLine(k + 1) =
                  kwImport \o <<" ">> \o Quote(modC \o <<"/">> \o modB)

\* The package name C3 expects in the output.
GoExpectedPackage ==
    IF goIn.isRoot /\ goIn.pkg = Base(goIn.srcMod)
    THEN Base(goIn.dstMod)
    ELSE IF goIn.isRoot /\ goIn.pkg = Base(goIn.srcMod) \o TestSuffix
    THEN Base(goIn.dstMod) \o TestSuffix
    ELSE goIn.pkg

\* C3, of fixGo alone: handed the old and the new identity, fixGo rewrites
\* the package clause only in the module root and only for the names base(O)
\* and base(O)_test, to base(N) and base(N)_test; any other package clause
\* stays as it was.
C3_FixGoPackageClause ==
    GoReturned =>
        /\ GoOutLine(1) = kwPackage \o <<" ">> \o GoExpectedPackage
        /\ (~goIn.isRoot
            \/ goIn.pkg \notin {Base(goIn.srcMod), Base(goIn.srcMod) \o TestSuffix})
           => /\ GoOutLine(1) = GoInLine(1)
              /\ \A i \in 1..Len(goRes.edits) :
                     goRes.edits[i].start >= Len(PackageLine(goIn.pkg))

\* The k-th import names the old identity or a subpackage of it.
GoRefers(k) == GoIsSelf(k) \/ GoIsSub(k)

\* The path literal of the k-th import is written the way strconv.Quote
\* writes it.
GoCanonical(k) == goIn.imports[k].lit = Quote(GoPath(k))

\* C4 as stated: rewriting with the old identity as the new one returns the
\* input's bytes, whatever the form of the import path literals.
C4_NoOpRoundTrip ==
    (GoReturned /\ goIn.srcMod = goIn.dstMod) => goRes.out = goIn.data

\* C4 amended: rewriting with the old identity as the new one returns the
\* input's bytes when every import path literal that names the identity or
\* a subpackage of it is written as strconv.Quote writes it; a literal in
\* another form is rewritten to that form, its path unchanged.
C4_NoOpRoundTripCanonical ==
    (GoReturned /\ goIn.srcMod = goIn.dstMod) =>
        /\ (\A k \in 1..Len(goIn.imports) : GoRefers(k) => GoCanonical(k))
           => goRes.out = goIn.data
        /\ \A k \in 1..Len(goIn.imports) :
               GoRefers(k) =>
                   GoOutLine(k + 1) = GoImportPrefix(k) \o Quote(GoPath(k))

\* C4's case: a root file named after the identity that imports it and a
\* subpackage of it in canonical form went through a no-op rewrite.
C4_Witness ==
    /\ GoReturned
    /\ goIn.srcMod = goIn.dstMod
    /\ goIn.isRoot
    /\ goIn.pkg = Base(goIn.srcMod)
    /\ \E k \in 1..Len(goIn.imports) : GoIsSelf(k) /\ GoCanonical(k)
    /\ \E k \in 1..Len(goIn.imports) : GoIsSub(k) /\ GoCanonical(k)
    /\ goRes.out = goIn.data

\* No import of the input names the old identity or a subpackage of it.
GoNoReference == \A k \in 1..Len(goIn.imports) : ~GoRefers(k)

\* fixGo renames the package clause of the input to a different name.
GoRenamesPackage ==
    /\ goIn.isRoot
    /\ goIn.pkg \in {Base(goIn.srcMod), Base(goIn.srcMod) \o TestSuffix}
    /\ GoNamesDiffer

\* C5 as stated: a file none of whose imports is the old identity or starts
\* with the old identity and a slash is returned byte for byte.
C5_Untouched ==
    (GoReturned /\ GoNoReference) => goRes.out = goIn.data

\* C5 amended: such a file is returned byte for byte unless its package
\* clause is renamed (a root file named base(O) or base(O)_test with
\* base(N) # base(O)), and then only the package name differs; an import
\* path that shares a prefix with O without the slash gets no edit.
C5_UntouchedUnlessRenamed ==
    (GoReturned /\ GoNoReference) =>
        /\ ~GoRenamesPackage => goRes.out = goIn.data
        /\ GoRenamesPackage =>
               /\ goRes.out # goIn.data
               /\ Tail(SplitLines(goRes.out)) = Tail(SplitLines(goIn.data))
        /\ \A k \in 1..Len(goIn.imports) : GoEditsAt(k) = <<>>

\* C5's case: a file below the root that imports "x.y/bc", which shares a
\* prefix with the old identity, was returned as it was.
C5_Witness ==
    /\ GoReturned
    /\ GoNoReference
    /\ GoNamesDiffer
    /\ ~GoRenamesPackage
    /\ \E k \in 1..Len(goIn.imports) :
           GoPath(k) = goIn.srcMod \o <<"c">>
    /\ goRes.out = goIn.data

\* The edit is a replacement of the package name.
GoIsPackageEdit(e) == e.start < Len(PackageLine(goIn.pkg))

\* C10: the edits fixGo hands to the buffer do not overlap: each starts where
\* the one before ends or later, an import path literal gets at most one
\* replacement, the package name's replacement ends before every import
\* edit starts, and two edits share a start only as the alias insertion
\* followed at once by the path replacement of one import of the identity.
C10_NonOverlapping ==
    goRes.called =>
        LET q == goRes.edits
        IN  /\ goRes.why # "overlap"
            /\ \A i, j \in 1..Len(q) : i < j => q[i].end <= q[j].start
            /\ \A k \in 1..Len(goIn.imports) :
                   Len(SelectSeq(GoEditsAt(k), LAMBDA e : e.end > e.start)) <= 1
            /\ \A i, j \in 1..Len(q) :
                   (GoIsPackageEdit(q[i]) /\ ~GoIsPackageEdit(q[j]))
                       => i < j /\ q[i].end < q[j].start
            /\ \A i, j \in 1..Len(q) :
                   (i < j /\ q[i].start = q[j].start) =>
                       /\ j = i + 1
                       /\ q[i].end = q[i].start
                       /\ q[j].end > q[j].start
                       /\ \E k \in 1..Len(goIn.imports) :
                              GoIsSelf(k) /\ GoLitPos(k) = q[i].start

\* C10's case: the package name was replaced and an alias inserted where a
\* path is replaced, with a second import edited after it.
C10_Witness ==
    /\ GoReturned
    /\ Len(goRes.edits) >= 4
    /\ GoIsPackageEdit(goRes.edits[1])
    /\ \E i \in 1..Len(goRes.edits) - 1 :
           goRes.edits[i].start = goRes.edits[i + 1].start

(***************************************************************************)
(* Properties of initProject.                                               *)
(***************************************************************************)

\* The entry exists in the target directory.
InDst(e) == IF e.isDir THEN e.rel \in dstDirs ELSE e.rel \in DOMAIN dstFiles

\* The package name the file is to declare in the target directory.
ExpectedPackage(e, name) ==
    IF ~Contains(e.rel, Separator) /\ name = Base(src)
    THEN Base(dst)
    ELSE IF ~Contains(e.rel, Separator) /\ name = Base(src) \o TestSuffix
    THEN Base(dst) \o TestSuffix
    ELSE name

\* C3 as stated: a .go file written to the target directory declares
\* base(N), or base(N)_test, when it lies in the module root and its source
\* declares base(O), or base(O)_test, and the package of its source otherwise.
C3_RootPackageRenamed ==
    \A j \in 1..Len(tree) :
        (/\ ~tree[j].isDir
         /\ HasSuffix(tree[j].rel, goSuffix)
         /\ InDst(tree[j])
         /\ IsIdentifier(Base(dst)))
            => CutBefore(dstFiles[tree[j].rel], <<"\n">>)
                   = kwPackage \o <<" ">>
                       \o ExpectedPackage(tree[j], ParseFile(tree[j].data).Name.Name)

\* The target directory holds the names of the fetched module, and no other.
SameNames ==
    /\ dstDirs = { tree[j].rel : j \in { i \in 1..Len(tree) : tree[i].isDir } }
    /\ DOMAIN dstFiles =
           { tree[j].rel : j \in { i \in 1..Len(tree) : ~tree[i].isDir } }

\* A file that is neither a .go source file nor the root go.mod.
OtherFile(e) ==
    /\ ~e.isDir
    /\ ~HasSuffix(e.rel, goSuffix)
    /\ e.rel # relGoMod

\* The walk has visited every entry and replaceVars has not yet written.
WalkJustEnded == pc \in {"config", "prompt"} \/ (pc = "generate" /\ genIdx = 0)

\* C6 as stated: when the command completes, the target directory has the
\* names of the fetched module and every file that is neither a .go file nor
\* the root go.mod holds the bytes of its source file.
C6_ByteIdentical ==
    pc = "done" =>
        /\ SameNames
        /\ \A j \in 1..Len(tree) :
               OtherFile(tree[j]) => dstFiles[tree[j].rel] = tree[j].data

\* C6, amended: the names are those of the fetched module; every file that
\* is neither a .go file nor the root go.mod holds the bytes of its source
\* file when the walk of the module ends, and the template expansion of those
\* bytes under the prompts' answers when the command completes.
C6_CopiedThenExpanded ==
    /\ WalkJustEnded =>
           /\ SameNames
           /\ \A j \in 1..Len(tree) :
                  OtherFile(tree[j]) => dstFiles[tree[j].rel] = tree[j].data
    /\ pc = "done" =>
           /\ SameNames
           /\ \A j \in 1..Len(tree) :
                  OtherFile(tree[j]) =>
                      /\ Expand(tree[j].data, inputs).ok
                      /\ dstFiles[tree[j].rel] = Expand(tree[j].data, inputs).bytes

\* C6's case: the command completed on a module with a go.mod in a
\* subdirectory and a README that holds a template action.
C6_Witness ==
    /\ pc = "done"
    /\ dst # src
    /\ relSubGoMod \in DOMAIN dstFiles
    /\ dstFiles[relSubGoMod] = subGoMod
    /\ \E j \in 1..Len(tree) :
           /\ tree[j].rel = relReadme
           /\ dstFiles[relReadme] # tree[j].data

\* An identity of the command line does not satisfy module.CheckPath.
InvalidIdentity ==
    \/ ~CheckPath(CutBefore(args.src, <<"@">>))
    \/ args.hasDst /\ ~CheckPath(args.dst)

\* C7: when the source or the destination identity is invalid, the command
\* fails having read no directory, downloaded no module, made no directory
\* and written no file; every such step happens after both checks passed.
C7_ValidatedFirst ==
    InvalidIdentity =>
        /\ io = <<>>
        /\ dstDirs = {}
        /\ dstFiles = <<>>
        /\ pc \in {"start", "checkdst", "fatal"}
        /\ pc = "fatal" => cause \in {"invalid source", "invalid destination"}

\* C7's case: the source was valid, the destination was not, and the command
\* failed before any step.
C7_Witness ==
    /\ pc = "fatal"
    /\ cause = "invalid destination"
    /\ CheckPath(src)
    /\ io = <<>>

\* C8 as stated: when fixGoMod set the module statement and Format failed,
\* the bytes it returned declare the new identity.
C8_EditKept ==
    (modCall.called /\ modCall.formatFailed) =>
        \E i \in 1..Len(ModLines(modCall.out)) :
            ModLines(modCall.out)[i] = ModuleStmt(modCall.dstMod)

\* The walk function cannot rewrite the file: fixGo or fixGoMod fails on it.
Unfixable(e) ==
    /\ ~e.isDir
    /\ \/ /\ HasSuffix(e.rel, goSuffix)
          /\ fixGo(e.data, e.rel, WalkSrc(e), dst,
                   ~Contains(e.rel, Separator)).fatal
       \/ /\ e.rel = relGoMod
          /\ ~ParseLax(e.data).ok

\* The failures of the walk of the module.
WalkCauses ==
    {"walk", "read", "parse", "package name", "overlap", "go.mod", "mkdir",
     "write"}

\* C9: the target directory holds exactly the entries visited before the
\* first failure (idx of them): the failing entry and every entry after it
\* are absent, none before it was skipped; a file that cannot be rewritten is
\* never written; and once anything failed the command stays failed, so it
\* never reports success.
C9_FirstFailureAborts ==
    /\ \A j \in 1..Len(tree) : InDst(tree[j]) <=> j <= idx
    /\ \A j \in 1..Len(tree) :
           (pc \notin {"start", "checkdst"} /\ Unfixable(tree[j]))
               => ~InDst(tree[j])
    /\ cause # "" => pc = "fatal"
    /\ cause \in WalkCauses => idx < Len(tree)
    /\ pc \in {"config", "prompt", "generate", "done"} => idx = Len(tree)

\* C9's case: the manifest failed to parse after the entries before it were
\* written, with entries after it left to visit.
C9_Witness ==
    /\ pc = "fatal"
    /\ cause = "go.mod"
    /\ idx = 3
    /\ Len(tree) > 4
    /\ relRootGo \in DOMAIN dstFiles
    /\ relGoMod \notin DOMAIN dstFiles

====
